---- MODULE Spec2Model ----
(***************************************************************************)
(* Forest inference on the CPU: the kernel infer_kernel_cpu                *)
(* (cpp/include/cuml/experimental/fil/detail/infer_kernel/cpu.hpp) and the *)
(* public dispatch infer (cpp/include/cuml/experimental/fil/detail/        *)
(* infer.hpp).                                                             *)
(*                                                                         *)
(* Leaf values are integers, so that sums are exact.  Pointers into a      *)
(* buffer are offsets from its start.  index_type is 32 bits wide; every   *)
(* index of the model stays far below 2^32.                                *)
(*                                                                         *)
(* Spec          a well-formed call, one loop iteration a step             *)
(* SpecFair      Spec with the threads of the team scheduled fairly        *)
(* SpecRW        a well-formed call, one workspace access a step           *)
(* SpecAny       a call whose shape counts may be zero                     *)
(* SpecAnyForest a call whose forest may be empty                          *)
(* SpecDispatch  the public infer                                          *)
(***************************************************************************)
EXTENDS Integers, Sequences, FiniteSets, TLC

\* ------------------------------------------------------------------ bounds
MaxTrees == 3
MaxRows == 2
MaxOutputs == 2
MaxCols == 2
NumLeaves == 3
NumThreads == 2

VARIABLES
  \* the arguments of infer_kernel_cpu
  forest,             \* sequence of tree roots; forest[t + 1] is tree t
  input,              \* row-major row_count x col_count matrix, flat
  row_count,
  col_count,
  num_outputs,
  chunk_size,
  grove_size,
  has_vector_leaves,  \* vector_output_t is not std::nullptr_t
  vector_output_p,    \* the leaf vector table, flat; <<>> when nullptr
  output,             \* the caller's output buffer, flat
  \* the locals of infer_kernel_cpu
  num_grove,
  num_chunk,
  output_workspace,
  pc,                 \* "idle", "phase1", "phase2", "done"; "failed" after
                      \* std::bad_alloc; "crashed", "undefined" after
                      \* undefined behaviour
  tasks,              \* task_index -> [st, row_index, tree_index]
  rows,               \* row_index  -> [st, class_index]
  loaded,             \* task_index -> [class_index, held, value]: the class
                      \* loop of the task, and the cell value its += has
                      \* read and not yet written back
  acc,                \* row_index -> [grove, sum]: how far std::accumulate
                      \* of the row's class has come
  \* observations
  writers,            \* workspace cell -> the tasks that wrote it in phase 1
  postproc_calls,     \* the arguments of the postprocessor calls of this call
  postproc_count,     \* how many postprocessor calls this call made
  evaluated,          \* how many tree evaluations this call made
  evals,              \* the <<task, row, tree>> of the evaluations of this call
  accessed,           \* the workspace accesses of this call, one at a time:
                      \* [who, i, kind] with who <<"task", task_index>> or
                      \* <<"row", row_index, class_index>>
  call_no,            \* 1 in the first call, 2 in the second
  last_output,        \* the output buffer the previous call left
  \* the arguments of the public infer and what it forwarded
  dispatch

vars == <<forest, input, row_count, col_count, num_outputs, chunk_size,
          grove_size, has_vector_leaves, vector_output_p, output, num_grove,
          num_chunk, output_workspace, pc, tasks, rows, writers,
          postproc_calls, postproc_count, evaluated, evals, call_no,
          last_output, dispatch, loaded, acc, accessed>>

args == <<forest, input, row_count, col_count, num_outputs, chunk_size,
          grove_size, has_vector_leaves, vector_output_p>>

Min(a, b) == IF a < b THEN a ELSE b
Max(a, b) == IF a < b THEN b ELSE a

\* ------------------------------------------------------- the tree evaluator
\* A tree is one numeric split over two leaves.  A leaf holds a scalar value
\* (scalar leaves) or an index into the leaf vector table (vector leaves).
TreeA(vec) ==
  IF vec THEN [feature |-> 0, threshold |-> 1, left |-> 0, right |-> NumLeaves - 1]
  ELSE [feature |-> 0, threshold |-> 1, left |-> 2, right |-> -1]

TreeB(vec) ==
  IF vec THEN [feature |-> 0, threshold |-> 1, left |-> 1, right |-> 0]
  ELSE [feature |-> 0, threshold |-> 1, left |-> -1, right |-> 3]

\* evaluate_tree(root, row): descend from the root to a leaf, return its payload
evaluate_tree(root, row) ==
  IF input[row + root.feature] < root.threshold THEN root.left ELSE root.right

get_tree_root(tree_index) == forest[tree_index + 1]

tree_count == Len(forest)

\* lines 115-129: the leaf payload of tree tree_index for row row_index
TreeOutput(row_index, tree_index) ==
  evaluate_tree(get_tree_root(tree_index), row_index * col_count)

\* ------------------------------------------------------------ the task grid
ceildiv(a, b) == (a + b - 1) \div b

TaskCount(ng, nc) == ng * nc

GroveIndex(task_index, nc) == task_index \div nc

ChunkIndexSwapped(task_index, nc) == task_index \div nc
ChunkIndex(task_index, nc) == task_index % nc

StartRow(task_index, nc, cs) == ChunkIndex(task_index, nc) * cs
EndRow(task_index, nc, cs) == Min(StartRow(task_index, nc, cs) + cs, row_count)
StartTreeUnscaled(task_index, nc, gs) == GroveIndex(task_index, nc)
StartTree(task_index, nc, gs) == GroveIndex(task_index, nc) * gs
EndTree(task_index, nc, gs) == Min(StartTree(task_index, nc, gs) + gs, tree_count)

\* ------------------------------------------------------------ the workspace
\* std::vector<output_t>(size, output_t{}): `old` is what the memory held
AllocWorkspaceNoInit(old, size) ==
  [i \in 0 .. size - 1 |-> IF i \in DOMAIN old THEN old[i] ELSE 0]
AllocWorkspace(old, size) == [i \in 0 .. size - 1 |-> 0]

WorkspaceSize(ng) == row_count * num_outputs * ng

WsIndexNoGrove(row_index, class_index, grove_index, ng) ==
  row_index * num_outputs * ng + class_index * ng
WsIndex(row_index, class_index, grove_index, ng) ==
  row_index * num_outputs * ng + class_index * ng + grove_index

WsStore(ws, i, v) == [ws EXCEPT ![i] = v]

\* output_workspace[i] += v
WsAddOverwrite(ws, i, v) == [ws EXCEPT ![i] = v]
WsAdd(ws, i, v) == [ws EXCEPT ![i] = @ + v]

VectorEntryNoStride(leaf, class_index) == vector_output_p[leaf + class_index]
VectorEntry(leaf, class_index) ==
  vector_output_p[leaf * num_outputs + class_index]

\* lines 131-143: the class loop of a vector leaf, from class_index on
RECURSIVE AddVector(_, _, _, _, _, _)
AddVector(ws, row_index, leaf, grove_index, ng, class_index) ==
  IF class_index < num_outputs
  THEN AddVector(
         WsAdd(ws, WsIndex(row_index, class_index, grove_index, ng),
               VectorEntry(leaf, class_index)),
         row_index, leaf, grove_index, ng, class_index + 1)
  ELSE ws

\* lines 145-149: the class a scalar leaf of tree tree_index is added to
ScalarClassInGrove(tree_index) == (tree_index % grove_size) % num_outputs
ScalarClass(tree_index) == tree_index % num_outputs

\* lines 115-150: one iteration of the tree loop
Accumulate(ws, row_index, tree_index, grove_index, ng) ==
  IF has_vector_leaves
  THEN AddVector(ws, row_index, TreeOutput(row_index, tree_index),
                 grove_index, ng, 0)
  ELSE WsAdd(ws, WsIndex(row_index, ScalarClass(tree_index), grove_index, ng),
             TreeOutput(row_index, tree_index))

\* the workspace cells that iteration writes
Written(row_index, tree_index, grove_index, ng) ==
  IF has_vector_leaves
  THEN { WsIndex(row_index, c, grove_index, ng) : c \in 0 .. num_outputs - 1 }
  ELSE { WsIndex(row_index, ScalarClass(tree_index), grove_index, ng) }

\* ---------------------------------------------------------------- phase 2
GroveOffsetNoRow(row_index, class_index, ng) == class_index * ng
GroveOffset(row_index, class_index, ng) ==
  row_index * num_outputs * ng + class_index * ng

\* std::accumulate(begin + first, begin + last, init)
RECURSIVE accumulate(_, _, _, _)
accumulate(ws, first, last, init) ==
  IF first < last THEN accumulate(ws, first + 1, last, init + ws[first])
  ELSE init

GroveSumFirstOnly(ws, grove_offset, ng) == ws[grove_offset]
GroveSum(ws, grove_offset, ng) ==
  accumulate(ws, grove_offset, grove_offset + ng, 0)

\* lines 163-171: one iteration of the class loop
ReduceClass(ws, row_index, class_index, ng) ==
  WsStore(ws, GroveOffset(row_index, class_index, ng),
          GroveSum(ws, GroveOffset(row_index, class_index, ng), ng))

\* lines 173-178: the arguments of the postprocessor call of a row
PostprocValOffsetNoGrove(row_index, ng) == row_index * num_outputs
PostprocValOffset(row_index, ng) == row_index * num_outputs * ng
PostprocOutOffsetNoStride(row_index) == row_index
PostprocOutOffset(row_index) == row_index * num_outputs

PostprocArgsSwapped(row_index, ng) ==
  [row |-> row_index,
   val |-> PostprocValOffset(row_index, ng),
   output_count |-> ng,
   out |-> PostprocOutOffset(row_index),
   stride |-> num_outputs]
PostprocArgs(row_index, ng) ==
  [row |-> row_index,
   val |-> PostprocValOffset(row_index, ng),
   output_count |-> num_outputs,
   out |-> PostprocOutOffset(row_index),
   stride |-> ng]

\* postprocessor::operator(): the identity transform of the row's output_count
\* aggregates.  Lines 163-177 leave the aggregate of class c at val + c * ng and
\* pass ng as the fourth argument.
postproc(out_buf, ws, a) ==
  [i \in DOMAIN out_buf |->
     IF i >= a.out /\ i < a.out + a.output_count
     THEN ws[a.val + (i - a.out) * a.stride]
     ELSE out_buf[i]]

\* ------------------------------------------- the call, run by one thread
\* lines 113-152 of one task, from the loop position (row_index, tree_index)
RECURSIVE RunTaskFrom(_, _, _, _, _, _, _, _)
RunTaskFrom(ws, task_index, row_index, tree_index, ng, nc, gs, cs) ==
  IF row_index >= EndRow(task_index, nc, cs) THEN ws
  ELSE IF tree_index >= EndTree(task_index, nc, gs)
  THEN RunTaskFrom(ws, task_index, row_index + 1,
                   StartTree(task_index, nc, gs), ng, nc, gs, cs)
  ELSE RunTaskFrom(
         Accumulate(ws, row_index, tree_index, GroveIndex(task_index, nc), ng),
         task_index, row_index, tree_index + 1, ng, nc, gs, cs)

\* lines 105-153: the task loop, from task_index on
RECURSIVE RunTasks(_, _, _, _, _, _)
RunTasks(ws, task_index, ng, nc, gs, cs) ==
  IF task_index < TaskCount(ng, nc)
  THEN RunTasks(
         RunTaskFrom(ws, task_index, StartRow(task_index, nc, cs),
                     StartTree(task_index, nc, gs), ng, nc, gs, cs),
         task_index + 1, ng, nc, gs, cs)
  ELSE ws

\* lines 158-172: the class loop of a row, from class_index on
RECURSIVE ReduceRow(_, _, _, _)
ReduceRow(ws, row_index, class_index, ng) ==
  IF class_index < num_outputs
  THEN ReduceRow(ReduceClass(ws, row_index, class_index, ng),
                 row_index, class_index + 1, ng)
  ELSE ws

\* lines 157-179: the row loop, from row_index on; the output buffer it leaves
RECURSIVE RunRows(_, _, _, _)
RunRows(out_buf, ws, row_index, ng) ==
  IF row_index < row_count
  THEN RunRows(
         postproc(out_buf, ReduceRow(ws, row_index, 0, ng),
                  PostprocArgs(row_index, ng)),
         ReduceRow(ws, row_index, 0, ng), row_index + 1, ng)
  ELSE out_buf

\* lines 93-179 with the grove and chunk sizes gs and cs, on one thread
KernelRun(out_buf, gs, cs) ==
  LET ng == ceildiv(tree_count, gs)
      nc == ceildiv(row_count, cs)
  IN  RunRows(out_buf,
              RunTasks(AllocWorkspace(<<>>, WorkspaceSize(ng)), 0, ng, nc, gs, cs),
              0, ng)

\* ------------------------------------------------------------------- Init
\* the forests of 1 .. MaxTrees trees that alternate the two trees
Forests(vec) ==
  { [i \in 1 .. n |-> IF (i + k) % 2 = 0 THEN TreeA(vec) ELSE TreeB(vec)] :
      n \in 1 .. MaxTrees, k \in {0, 1} }

\* the row-major matrix whose row r holds x[r] in column 0 and 1 - x[r] elsewhere
InputOf(rc, cc, x) ==
  [i \in 0 .. rc * cc - 1 |-> IF i % cc = 0 THEN x[i \div cc] ELSE 1 - x[i \div cc]]

\* the matrices whose rows alternate x = 0 and x = 1
Inputs(rc, cc) ==
  { InputOf(rc, cc, [r \in 0 .. rc - 1 |-> (r + k) % 2]) : k \in {0, 1} }

\* a leaf vector table of NumLeaves leaves
VectorTable(no) ==
  [i \in 0 .. NumLeaves * no - 1 |-> IF i % 2 = 0 THEN i + 1 ELSE 0 - (i + 1)]

\* what the output buffer holds before the first call
PriorOutput(rc, no) == [i \in 0 .. rc * no - 1 |-> 7]

NoDispatch == [st |-> "none"]

InitLocals ==
  /\ num_grove = 0
  /\ num_chunk = 0
  /\ output_workspace = <<>>
  /\ pc = "idle"
  /\ tasks = <<>>
  /\ rows = <<>>
  /\ writers = <<>>
  /\ postproc_calls = {}
  /\ postproc_count = 0
  /\ evaluated = 0
  /\ evals = {}
  /\ loaded = <<>>
  /\ acc = <<>>
  /\ accessed = {}
  /\ call_no = 1
  /\ last_output = <<>>

\* The arguments of a well-formed call.  The forest has at least one tree: an
\* empty one gives num_grove = 0 and an empty workspace, which lines 163-171
\* then index.
Init ==
  /\ has_vector_leaves \in BOOLEAN
  /\ forest \in Forests(has_vector_leaves)
  /\ row_count \in 0 .. MaxRows
  /\ col_count = MaxCols
  /\ input \in Inputs(row_count, col_count)
  /\ num_outputs \in 1 .. MaxOutputs
  /\ chunk_size \in 1 .. MaxRows
  /\ grove_size \in 1 .. MaxTrees
  /\ vector_output_p = IF has_vector_leaves THEN VectorTable(num_outputs) ELSE <<>>
  /\ output = PriorOutput(row_count, num_outputs)
  /\ InitLocals
  /\ dispatch = NoDispatch

\* ---------------------------------------------------------------- actions
Running(f) == { i \in DOMAIN f : f[i].st = "running" }

\* a thread of the team is free to take an iteration
NoThreadFree == FALSE
ThreadFree == Cardinality(Running(tasks)) + Cardinality(Running(rows)) < NumThreads

\* a task at class class_index of its class loop, holding no cell value
NotLoaded(class_index) == [class_index |-> class_index, held |-> FALSE, value |-> 0]

\* line 170: std::accumulate starts at the first grove with output_t{}
AccInit == [grove |-> 0, sum |-> 0]

\* lines 93-101: the grid, the zero-filled workspace
KernelEntry ==
  /\ pc = "idle"
  /\ dispatch = NoDispatch
  /\ chunk_size > 0 /\ grove_size > 0
  /\ num_grove' = ceildiv(tree_count, grove_size)
  /\ num_chunk' = ceildiv(row_count, chunk_size)
  /\ output_workspace' = AllocWorkspace(output_workspace, WorkspaceSize(num_grove'))
  /\ tasks' = [t \in 0 .. TaskCount(num_grove', num_chunk') - 1 |->
                 [st |-> "pending", row_index |-> 0, tree_index |-> 0]]
  /\ rows' = [r \in 0 .. row_count - 1 |-> [st |-> "pending", class_index |-> 0]]
  /\ writers' = [i \in 0 .. WorkspaceSize(num_grove') - 1 |-> {}]
  /\ loaded' = [t \in DOMAIN tasks' |-> NotLoaded(0)]
  /\ acc' = [r \in DOMAIN rows' |-> AccInit]
  /\ pc' = "phase1"
  /\ UNCHANGED <<args, output, postproc_calls, postproc_count, evaluated,
                 evals, call_no, last_output, dispatch, accessed>>

\* line 97: the allocation of the workspace throws std::bad_alloc
AllocFail ==
  /\ pc = "idle"
  /\ dispatch = NoDispatch
  /\ chunk_size > 0 /\ grove_size > 0
  /\ pc' = "failed"
  /\ UNCHANGED <<args, output, num_grove, num_chunk, output_workspace, tasks,
                 rows, writers, postproc_calls, postproc_count, evaluated,
                 evals, call_no, last_output, dispatch, loaded, acc, accessed>>

\* the loop position of task t: where its loops start, or where they are
TaskRow(t) ==
  IF tasks[t].st = "pending" THEN StartRow(t, num_chunk, chunk_size)
  ELSE tasks[t].row_index

TaskTree(t) ==
  IF tasks[t].st = "pending" THEN StartTree(t, num_chunk, grove_size)
  ELSE tasks[t].tree_index

\* lines 105-152: one iteration of the tree loop of task t, then the loop heads;
\* the first one by a free thread that takes the task
TaskStep(t) ==
  /\ \/ tasks[t].st = "running"
     \/ pc = "phase1" /\ tasks[t].st = "pending" /\ ThreadFree
  /\ has_vector_leaves \/ num_outputs # 0
  /\ LET r == TaskRow(t)
         tr == TaskTree(t)
         g == GroveIndex(t, num_chunk)
     IN  /\ output_workspace' = Accumulate(output_workspace, r, tr, g, num_grove)
         /\ writers' = [i \in DOMAIN writers |->
                          IF i \in Written(r, tr, g, num_grove)
                          THEN writers[i] \cup {t} ELSE writers[i]]
         /\ tasks' =
              [tasks EXCEPT ![t] =
                 IF tr + 1 < EndTree(t, num_chunk, grove_size)
                 THEN [st |-> "running", row_index |-> r, tree_index |-> tr + 1]
                 ELSE IF r + 1 < EndRow(t, num_chunk, chunk_size)
                 THEN [st |-> "running", row_index |-> r + 1,
                       tree_index |-> StartTree(t, num_chunk, grove_size)]
                 ELSE [st |-> "done", row_index |-> 0, tree_index |-> 0]]
  /\ evaluated' = evaluated + 1
  /\ evals' = evals \cup {<<t, TaskRow(t), TaskTree(t)>>}
  /\ UNCHANGED <<args, output, num_grove, num_chunk, pc, rows, postproc_calls,
                 postproc_count, call_no, last_output, dispatch, loaded, acc,
                 accessed>>

AllTasksStarted == \A t \in DOMAIN tasks : tasks[t].st # "pending"
AllTasksDone == \A t \in DOMAIN tasks : tasks[t].st = "done"

\* line 153: the barrier that ends the first parallel loop
Barrier ==
  /\ pc = "phase1"
  /\ AllTasksDone
  /\ pc' = "phase2"
  /\ UNCHANGED <<args, output, num_grove, num_chunk, output_workspace, tasks,
                 rows, writers, postproc_calls, postproc_count, evaluated,
                 evals, call_no, last_output, dispatch, loaded, acc, accessed>>

\* lines 157-172: one iteration of the class loop of row r; the first one by a
\* free thread that takes the row
RowReduce(r) ==
  /\ \/ rows[r].st = "running"
     \/ pc = "phase2" /\ rows[r].st = "pending" /\ ThreadFree
  /\ rows[r].class_index < num_outputs
  /\ output_workspace' = ReduceClass(output_workspace, r, rows[r].class_index, num_grove)
  /\ rows' = [rows EXCEPT ![r] = [st |-> "running", class_index |-> @.class_index + 1]]
  /\ UNCHANGED <<args, output, num_grove, num_chunk, pc, tasks, writers,
                 postproc_calls, postproc_count, evaluated, evals, call_no,
                 last_output, dispatch, loaded, acc, accessed>>

\* lines 173-178: the postprocessor call of row r
RowPostproc(r) ==
  /\ \/ rows[r].st = "running"
     \/ pc = "phase2" /\ rows[r].st = "pending" /\ ThreadFree /\ num_outputs = 0
  /\ rows[r].class_index >= num_outputs
  /\ output' = postproc(output, output_workspace, PostprocArgs(r, num_grove))
  /\ postproc_calls' = postproc_calls \cup {PostprocArgs(r, num_grove)}
  /\ postproc_count' = postproc_count + 1
  /\ rows' = [rows EXCEPT ![r].st = "done"]
  /\ UNCHANGED <<args, num_grove, num_chunk, output_workspace, pc, tasks,
                 writers, evaluated, evals, call_no, last_output, dispatch,
                 loaded, acc, accessed>>

AllRowsDone == \A r \in DOMAIN rows : rows[r].st = "done"

\* lines 179-180: the second loop ends, the workspace is freed, the call returns
Return ==
  /\ pc = "phase2"
  /\ AllRowsDone
  /\ pc' = "done"
  /\ UNCHANGED <<args, output, num_grove, num_chunk, output_workspace, tasks,
                 rows, writers, postproc_calls, postproc_count, evaluated,
                 evals, call_no, last_output, dispatch, loaded, acc, accessed>>

\* the caller calls a second time with the same arguments and the same output
\* buffer; output_workspace is what the freed memory still holds
CallAgain ==
  /\ pc = "done"
  /\ call_no = 1
  /\ pc' = "idle"
  /\ call_no' = call_no + 1
  /\ last_output' = output
  /\ num_grove' = 0
  /\ num_chunk' = 0
  /\ tasks' = <<>>
  /\ rows' = <<>>
  /\ writers' = <<>>
  /\ postproc_calls' = {}
  /\ postproc_count' = 0
  /\ evaluated' = 0
  /\ evals' = {}
  /\ loaded' = <<>>
  /\ acc' = <<>>
  /\ accessed' = {}
  /\ UNCHANGED <<args, output, output_workspace, dispatch>>

Next ==
  \/ KernelEntry
  \/ AllocFail
  \/ \E t \in DOMAIN tasks : TaskStep(t)
  \/ Barrier
  \/ \E r \in DOMAIN rows : RowReduce(r)
  \/ \E r \in DOMAIN rows : RowPostproc(r)
  \/ Return
  \/ CallAgain

Spec == Init /\ [][Next]_vars

\* The threads of the team keep running: an iteration that can be taken or
\* continued is, and a loop whose iterations are all done ends.
Fairness ==
  /\ WF_vars(\E t \in DOMAIN tasks : TaskStep(t))
  /\ WF_vars(Barrier)
  /\ WF_vars(\E r \in DOMAIN rows : RowReduce(r))
  /\ WF_vars(\E r \in DOMAIN rows : RowPostproc(r))
  /\ WF_vars(Return)

SpecFair == Init /\ [][Next]_vars /\ Fairness

\* ------------------------------------- the loops, one memory access a step
\* A += of lines 136-149 is a read of the cell followed by a write of the sum,
\* and std::accumulate of lines 167-171 reads one cell after another.

Access(who, i, kind) == [who |-> who, i |-> i, kind |-> kind]

\* the class whose cell task t is at: the class loop's, or the tree's
TaskClass(t) ==
  IF has_vector_leaves THEN loaded[t].class_index ELSE ScalarClass(TaskTree(t))

\* the workspace cell task t is at
TaskCell(t) ==
  WsIndex(TaskRow(t), TaskClass(t), GroveIndex(t, num_chunk), num_grove)

\* what the += of task t adds to the cell
TaskAddend(t) ==
  IF has_vector_leaves
  THEN VectorEntry(TreeOutput(TaskRow(t), TaskTree(t)), TaskClass(t))
  ELSE TreeOutput(TaskRow(t), TaskTree(t))

\* lines 113-114, 151-152: the loop heads after the iteration (r, tr) of task t
NextPosition(t, r, tr) ==
  IF tr + 1 < EndTree(t, num_chunk, grove_size)
  THEN [st |-> "running", row_index |-> r, tree_index |-> tr + 1]
  ELSE IF r + 1 < EndRow(t, num_chunk, chunk_size)
  THEN [st |-> "running", row_index |-> r + 1,
        tree_index |-> StartTree(t, num_chunk, grove_size)]
  ELSE [st |-> "done", row_index |-> 0, tree_index |-> 0]

\* lines 115-149: task t reads the cell of its +=; before the first += of a
\* tree iteration it evaluates the tree
TaskLoad(t) ==
  /\ \/ tasks[t].st = "running"
     \/ pc = "phase1" /\ tasks[t].st = "pending" /\ ThreadFree
  /\ num_outputs > 0
  /\ ~loaded[t].held
  /\ loaded' = [loaded EXCEPT ![t] = [class_index |-> @.class_index,
                                      held |-> TRUE,
                                      value |-> output_workspace[TaskCell(t)]]]
  /\ tasks' = [tasks EXCEPT ![t] = [st |-> "running", row_index |-> TaskRow(t),
                                    tree_index |-> TaskTree(t)]]
  /\ accessed' = accessed \cup {Access(<<"task", t>>, TaskCell(t), "read")}
  /\ IF has_vector_leaves /\ loaded[t].class_index > 0
     THEN UNCHANGED <<evaluated, evals>>
     ELSE /\ evaluated' = evaluated + 1
          /\ evals' = evals \cup {<<t, TaskRow(t), TaskTree(t)>>}
  /\ UNCHANGED <<args, output, num_grove, num_chunk, output_workspace, pc,
                 rows, writers, postproc_calls, postproc_count, call_no,
                 last_output, dispatch, acc>>

\* lines 136-149: task t writes the sum back, then the loop heads
TaskStore(t) ==
  /\ tasks[t].st = "running"
  /\ loaded[t].held
  /\ output_workspace' =
       WsStore(output_workspace, TaskCell(t), loaded[t].value + TaskAddend(t))
  /\ writers' = [i \in DOMAIN writers |->
                   IF i = TaskCell(t) THEN writers[i] \cup {t} ELSE writers[i]]
  /\ accessed' = accessed \cup {Access(<<"task", t>>, TaskCell(t), "write")}
  /\ IF has_vector_leaves /\ loaded[t].class_index + 1 < num_outputs
     THEN /\ loaded' = [loaded EXCEPT ![t] = NotLoaded(@.class_index + 1)]
          /\ UNCHANGED tasks
     ELSE /\ loaded' = [loaded EXCEPT ![t] = NotLoaded(0)]
          /\ tasks' = [tasks EXCEPT ![t] = NextPosition(t, TaskRow(t), TaskTree(t))]
  /\ UNCHANGED <<args, output, num_grove, num_chunk, pc, rows, postproc_calls,
                 postproc_count, evaluated, evals, call_no, last_output,
                 dispatch, acc>>

\* the workspace cell std::accumulate of row r is at
RowCell(r) == GroveOffset(r, rows[r].class_index, num_grove) + acc[r].grove

\* lines 167-171: std::accumulate of row r reads the next cell
RowRead(r) ==
  /\ \/ rows[r].st = "running"
     \/ pc = "phase2" /\ rows[r].st = "pending" /\ ThreadFree
  /\ rows[r].class_index < num_outputs
  /\ acc[r].grove < num_grove
  /\ acc' = [acc EXCEPT ![r] = [grove |-> @.grove + 1,
                                sum |-> @.sum + output_workspace[RowCell(r)]]]
  /\ rows' = [rows EXCEPT ![r].st = "running"]
  /\ accessed' = accessed \cup {Access(<<"row", r, rows[r].class_index>>, RowCell(r), "read")}
  /\ UNCHANGED <<args, output, num_grove, num_chunk, output_workspace, pc,
                 tasks, writers, postproc_calls, postproc_count, evaluated,
                 evals, call_no, last_output, dispatch, loaded>>

\* line 167: the sum of row r's class is stored at grove_offset
RowStore(r) ==
  /\ \/ rows[r].st = "running"
     \/ pc = "phase2" /\ rows[r].st = "pending" /\ ThreadFree
  /\ rows[r].class_index < num_outputs
  /\ acc[r].grove >= num_grove
  /\ GroveOffset(r, rows[r].class_index, num_grove) \in DOMAIN output_workspace
  /\ output_workspace' =
       WsStore(output_workspace, GroveOffset(r, rows[r].class_index, num_grove),
               acc[r].sum)
  /\ acc' = [acc EXCEPT ![r] = AccInit]
  /\ rows' = [rows EXCEPT ![r] = [st |-> "running",
                                  class_index |-> @.class_index + 1]]
  /\ accessed' = accessed \cup
       {Access(<<"row", r, rows[r].class_index>>,
               GroveOffset(r, rows[r].class_index, num_grove), "write")}
  /\ UNCHANGED <<args, output, num_grove, num_chunk, pc, tasks, writers,
                 postproc_calls, postproc_count, evaluated, evals, call_no,
                 last_output, dispatch, loaded>>

NextRW ==
  \/ KernelEntry
  \/ \E t \in DOMAIN tasks : TaskLoad(t)
  \/ \E t \in DOMAIN tasks : TaskStore(t)
  \/ Barrier
  \/ \E r \in DOMAIN rows : RowRead(r)
  \/ \E r \in DOMAIN rows : RowStore(r)
  \/ \E r \in DOMAIN rows : RowPostproc(r)
  \/ Return

SpecRW == Init /\ [][NextRW]_vars

\* ------------------------------------------------- malformed shape counts
\* lines 94-95: ceildiv divides by a zero grove_size or chunk_size, which is
\* undefined: the division traps, or the call goes on in an undefined state
KernelEntryDivZero ==
  /\ pc = "idle"
  /\ dispatch = NoDispatch
  /\ chunk_size = 0 \/ grove_size = 0
  /\ pc' \in {"crashed", "undefined"}
  /\ UNCHANGED <<args, output, num_grove, num_chunk, output_workspace, tasks,
                 rows, writers, postproc_calls, postproc_count, evaluated,
                 evals, call_no, last_output, dispatch, loaded, acc, accessed>>

\* lines 115-149 with scalar leaves and num_outputs = 0: the tree is evaluated,
\* then tree_index % num_outputs divides by zero, which is undefined
TaskStepDivZero(t) ==
  /\ pc = "phase1"
  /\ tasks[t].st = "pending" /\ ThreadFree
  /\ ~has_vector_leaves /\ num_outputs = 0
  /\ pc' \in {"crashed", "undefined"}
  /\ evaluated' = evaluated + 1
  /\ evals' = evals \cup {<<t, TaskRow(t), TaskTree(t)>>}
  /\ UNCHANGED <<args, output, num_grove, num_chunk, output_workspace, tasks,
                 rows, writers, postproc_calls, postproc_count, call_no,
                 last_output, dispatch, loaded, acc, accessed>>

\* The arguments of any call: the shape counts may be zero.
InitAny ==
  /\ has_vector_leaves \in BOOLEAN
  /\ forest \in Forests(has_vector_leaves)
  /\ row_count \in 0 .. MaxRows
  /\ col_count = MaxCols
  /\ input \in Inputs(row_count, col_count)
  /\ num_outputs \in 0 .. MaxOutputs
  /\ chunk_size \in 0 .. MaxRows
  /\ grove_size \in 0 .. MaxTrees
  /\ vector_output_p = IF has_vector_leaves THEN VectorTable(num_outputs) ELSE <<>>
  /\ output = PriorOutput(row_count, num_outputs)
  /\ InitLocals
  /\ dispatch = NoDispatch

NextAny ==
  \/ Next
  \/ KernelEntryDivZero
  \/ \E t \in DOMAIN tasks : TaskStepDivZero(t)

SpecAny == InitAny /\ [][NextAny]_vars

\* ------------------------------------------------------- an empty forest
\* line 167 with a grove_offset that is no index of the workspace (an empty
\* forest has num_grove = 0 and an empty workspace): the store through
\* operator[] is undefined
RowStoreOutOfBounds(r) ==
  /\ \/ rows[r].st = "running"
     \/ pc = "phase2" /\ rows[r].st = "pending" /\ ThreadFree
  /\ rows[r].class_index < num_outputs
  /\ acc[r].grove >= num_grove
  /\ GroveOffset(r, rows[r].class_index, num_grove) \notin DOMAIN output_workspace
  /\ accessed' = accessed \cup
       {Access(<<"row", r, rows[r].class_index>>,
               GroveOffset(r, rows[r].class_index, num_grove), "write")}
  /\ pc' \in {"crashed", "undefined"}
  /\ UNCHANGED <<args, output, num_grove, num_chunk, output_workspace, tasks,
                 rows, writers, postproc_calls, postproc_count, evaluated,
                 evals, call_no, last_output, dispatch, loaded, acc>>

\* the forests of 0 .. MaxTrees trees
ForestsOrEmpty(vec) == Forests(vec) \cup {<<>>}

\* The arguments of a call with positive shape counts and any forest.
InitAnyForest ==
  /\ has_vector_leaves \in BOOLEAN
  /\ forest \in ForestsOrEmpty(has_vector_leaves)
  /\ row_count \in 0 .. MaxRows
  /\ col_count = MaxCols
  /\ input \in Inputs(row_count, col_count)
  /\ num_outputs \in 1 .. MaxOutputs
  /\ chunk_size \in 1 .. MaxRows
  /\ grove_size \in 1 .. MaxTrees
  /\ vector_output_p = IF has_vector_leaves THEN VectorTable(num_outputs) ELSE <<>>
  /\ output = PriorOutput(row_count, num_outputs)
  /\ InitLocals
  /\ dispatch = NoDispatch

NextAnyForest ==
  \/ NextRW
  \/ \E r \in DOMAIN rows : RowStoreOutOfBounds(r)

SpecAnyForest == InitAnyForest /\ [][NextAnyForest]_vars

\* ------------------------------------------------------ the public infer
nullptr == "nullptr"

Devices == {"cpu", "gpu"}

\* inference::infer<D, has_categorical_nodes, forest_t, vector_output_t,
\* categorical_data_t>(...): the specialization and the arguments of a forward
Forward(D, categorical, a, rc, cc, oc, vector_output, categorical_data) ==
  [D |-> D,
   has_categorical_nodes |-> categorical,
   vector_output_t |-> IF vector_output = nullptr THEN "nullptr_t" ELSE "io_type*",
   categorical_data_t |-> IF categorical_data = nullptr THEN "nullptr_t" ELSE "index_type*",
   forest |-> a.forest,
   postproc |-> a.postproc,
   output |-> a.output,
   input |-> a.input,
   row_count |-> rc,
   col_count |-> cc,
   output_count |-> oc,
   vector_output |-> vector_output,
   categorical_data |-> categorical_data,
   specified_chunk_size |-> a.specified_chunk_size,
   device |-> a.device,
   stream |-> a.stream]

\* lines 79-92
Site1(a) ==
  Forward(a.D, FALSE, a, a.row_count, a.col_count, a.output_count, nullptr, nullptr)
\* lines 94-107
Site2(a) ==
  Forward(a.D, TRUE, a, a.row_count, a.col_count, a.output_count, nullptr, nullptr)
\* lines 110-123
Site3AsFlagged(a) ==
  Forward(a.D, a.has_categorical_nodes, a, a.row_count, a.col_count,
          a.output_count, nullptr, a.categorical_data)
Site3(a) ==
  Forward(a.D, TRUE, a, a.row_count, a.col_count, a.output_count, nullptr,
          a.categorical_data)
\* lines 128-141
Site4(a) ==
  Forward(a.D, FALSE, a, a.row_count, a.col_count, a.output_count,
          a.vector_output, nullptr)
\* lines 143-156
Site5Swapped(a) ==
  Forward(a.D, TRUE, a, a.col_count, a.row_count, a.output_count,
          a.vector_output, nullptr)
Site5(a) ==
  Forward(a.D, TRUE, a, a.row_count, a.col_count, a.output_count,
          a.vector_output, nullptr)
\* lines 159-172
Site6(a) ==
  Forward(a.D, TRUE, a, a.row_count, a.col_count, a.output_count,
          a.vector_output, a.categorical_data)

\* lines 76-174: the forwards the body of infer makes for the arguments a
infer(a) ==
  IF a.vector_output = nullptr
  THEN IF a.categorical_data = nullptr
       THEN IF ~a.has_categorical_nodes THEN <<Site1(a)>> ELSE <<Site2(a)>>
       ELSE <<Site3(a)>>
  ELSE IF a.categorical_data = nullptr
       THEN IF ~a.has_categorical_nodes THEN <<Site4(a)>> ELSE <<Site5(a)>>
       ELSE <<Site6(a)>>

\* cpu.hpp lines 82-83: what the kernel of a specialization is compiled with
has_vector_leaves_of(f) == f.vector_output_t # "nullptr_t"
has_nonlocal_categories(f) == f.categorical_data_t # "nullptr_t"

\* the template arguments that tell one specialization from another
Specialization(f) ==
  <<f.has_categorical_nodes, f.vector_output_t, f.categorical_data_t>>

\* lines 60-75: the arguments of a call of infer<D, forest_t>; buffers and
\* objects by name, std::optional as a sequence of at most one value
InferArgs ==
  [st : {"called"},
   D : Devices,
   forest : {"forest"},
   postproc : {"postproc"},
   output : {"output"},
   input : {"input"},
   row_count : 0 .. MaxRows,
   col_count : 1 .. MaxCols,
   output_count : 1 .. MaxOutputs,
   has_categorical_nodes : BOOLEAN,
   vector_output : {nullptr, "vector_output"},
   categorical_data : {nullptr, "categorical_data"},
   specified_chunk_size : {<<>>} \cup {<<n>> : n \in 1 .. MaxRows},
   device : {0, 1},
   stream : {"stream"},
   forwards : {<<>>}]

InitDispatch ==
  /\ dispatch \in InferArgs
  /\ has_vector_leaves = (dispatch.vector_output # nullptr)
  /\ forest \in {f \in Forests(has_vector_leaves) : Len(f) = 1}
  /\ row_count = dispatch.row_count
  /\ col_count = dispatch.col_count
  /\ input = InputOf(row_count, col_count, [r \in 0 .. row_count - 1 |-> 0])
  /\ num_outputs = dispatch.output_count
  /\ chunk_size = 0
  /\ grove_size = 0
  /\ vector_output_p = IF has_vector_leaves THEN VectorTable(num_outputs) ELSE <<>>
  /\ output = PriorOutput(row_count, num_outputs)
  /\ InitLocals

\* lines 76-174: infer takes its branch and forwards
InferCall ==
  /\ dispatch # NoDispatch
  /\ dispatch.st = "called"
  /\ dispatch' = [dispatch EXCEPT !.forwards = @ \o infer(dispatch),
                                  !.st = "forwarded"]
  /\ UNCHANGED <<args, output, num_grove, num_chunk, output_workspace, pc,
                 tasks, rows, writers, postproc_calls, postproc_count,
                 evaluated, evals, call_no, last_output, loaded, acc,
                 accessed>>

\* line 175: the engine has returned and infer returns
InferReturn ==
  /\ dispatch # NoDispatch
  /\ dispatch.st = "forwarded"
  /\ dispatch' = [dispatch EXCEPT !.st = "returned"]
  /\ UNCHANGED <<args, output, num_grove, num_chunk, output_workspace, pc,
                 tasks, rows, writers, postproc_calls, postproc_count,
                 evaluated, evals, call_no, last_output, loaded, acc,
                 accessed>>

NextDispatch == InferCall \/ InferReturn

SpecDispatch == InitDispatch /\ [][NextDispatch]_vars

\* ------------------------------------------------------------------ claims
Started == pc \in {"phase1", "phase2", "done"}

RECURSIVE SumLeaves(_, _)
SumLeaves(row_index, n) ==
  IF n = 0 THEN 0
  ELSE SumLeaves(row_index, n - 1) +
       (IF input[row_index * col_count + forest[n].feature] < forest[n].threshold
        THEN forest[n].left ELSE forest[n].right)

\* C2: with scalar leaves and one output, once the reduction of a row has stored
\* the aggregate of class 0, that aggregate is the sum of the leaf values the
\* tree_count trees return for the row.
C2_ScalarSum ==
  \A r \in DOMAIN rows :
    (~has_vector_leaves /\ num_outputs = 1 /\ rows[r].class_index >= 1) =>
      output_workspace[r * num_grove] = SumLeaves(r, tree_count)

\* Scenario A, leaves scaled by two: leaves 2 and -1 give the aggregate 1
C2_Witness ==
  /\ ~has_vector_leaves /\ num_outputs = 1 /\ tree_count = 2
  /\ num_grove = 2
  /\ \E r \in DOMAIN rows :
       /\ rows[r].class_index >= 1
       /\ TreeOutput(r, 0) = 2 /\ TreeOutput(r, 1) = -1
       /\ output_workspace[r * num_grove] = 1

\* the sum over trees 0 .. n - 1 of the entry of class class_index of the leaf
\* vector the tree returns for row row_index
RECURSIVE SumVectors(_, _, _)
SumVectors(row_index, class_index, n) ==
  IF n = 0 THEN 0
  ELSE SumVectors(row_index, class_index, n - 1) +
       vector_output_p[
         (IF input[row_index * col_count + forest[n].feature] < forest[n].threshold
          THEN forest[n].left ELSE forest[n].right) * num_outputs + class_index]

\* C3: with vector leaves, once the reduction of a row has stored the aggregate
\* of class c, that aggregate is the sum over all trees t of
\* vector_output[leaf_index(t, row) * num_outputs + c].
C3_VectorSum ==
  \A r \in DOMAIN rows :
    \A c \in 0 .. num_outputs - 1 :
      (has_vector_leaves /\ rows[r].class_index > c) =>
        output_workspace[r * num_outputs * num_grove + c * num_grove]
          = SumVectors(r, c, tree_count)

C3_Witness ==
  /\ has_vector_leaves /\ num_outputs = 2 /\ tree_count >= 2 /\ num_grove >= 2
  /\ \E r \in DOMAIN rows :
       /\ rows[r].class_index = 2
       /\ TreeOutput(r, 0) >= 1
       /\ output_workspace[r * num_outputs * num_grove + num_grove] # 0

\* the output cells the postprocessor calls made so far were told to write
Covered ==
  UNION { a.out .. a.out + a.output_count - 1 : a \in postproc_calls }

\* C4: every row whose iteration has finished has called the postprocessor
\* exactly once, with the count num_outputs and the output pointer
\* output + row * num_outputs; when the call returns there were exactly
\* row_count calls, one for each row, and they cover the whole output region.
C4_PostprocOncePerRow ==
  /\ postproc_count = Cardinality({r \in DOMAIN rows : rows[r].st = "done"})
  /\ \A a \in postproc_calls :
       /\ rows[a.row].st = "done"
       /\ a.output_count = num_outputs
       /\ a.out = a.row * num_outputs
  /\ \A r \in DOMAIN rows :
       rows[r].st = "done" => \E a \in postproc_calls : a.row = r
  /\ pc = "done" =>
       /\ postproc_count = row_count
       /\ {a.row : a \in postproc_calls} = 0 .. row_count - 1
       /\ Covered = 0 .. row_count * num_outputs - 1

C4_Witness ==
  /\ pc = "done" /\ row_count = MaxRows /\ num_outputs >= 2
  /\ postproc_count = MaxRows

\* C5: a workspace cell is written in phase 1 by at most one task, and that task
\* is the one whose grove index is the cell's grove and whose chunk holds the
\* cell's row.
C5_ExclusiveWrites ==
  \A i \in DOMAIN writers :
    /\ Cardinality(writers[i]) <= 1
    /\ \A t \in writers[i] :
         /\ t \div num_chunk = i % num_grove
         /\ t % num_chunk = (i \div (num_outputs * num_grove)) \div chunk_size

C5_Witness ==
  /\ num_grove >= 2 /\ num_chunk >= 2
  /\ Cardinality(Running(tasks)) = 2
  /\ \E i, j \in DOMAIN writers :
       /\ writers[i] # {} /\ writers[j] # {} /\ writers[i] # writers[j]
       /\ i \div (num_outputs * num_grove) = j \div (num_outputs * num_grove)

\* C6 as stated: any two distinct tasks differ in their grove index.
C6_DistinctGroveIndex ==
  Started =>
    \A t1, t2 \in DOMAIN tasks :
      t1 # t2 => GroveIndex(t1, num_chunk) # GroveIndex(t2, num_chunk)

\* C6, amended: any two distinct tasks differ in their grove index or in their
\* chunk index; the tasks of one grove index are num_chunk many, one for each
\* chunk index.
C6_DistinctGroveChunk ==
  Started =>
    /\ \A t1, t2 \in DOMAIN tasks :
         t1 # t2 =>
           \/ GroveIndex(t1, num_chunk) # GroveIndex(t2, num_chunk)
           \/ ChunkIndex(t1, num_chunk) # ChunkIndex(t2, num_chunk)
    /\ \A t \in DOMAIN tasks :
         /\ GroveIndex(t, num_chunk) \in 0 .. num_grove - 1
         /\ ChunkIndex(t, num_chunk) \in 0 .. num_chunk - 1
         /\ Cardinality({u \in DOMAIN tasks :
              GroveIndex(u, num_chunk) = GroveIndex(t, num_chunk)}) = num_chunk

C6_Witness ==
  /\ pc = "phase2" /\ num_chunk >= 2 /\ num_grove >= 2
  /\ \E t1, t2 \in DOMAIN tasks :
       /\ t1 # t2
       /\ GroveIndex(t1, num_chunk) = GroveIndex(t2, num_chunk)
       /\ \E i \in DOMAIN writers : writers[i] = {t1}
       /\ \E i \in DOMAIN writers : writers[i] = {t2}

\* C7: no row iteration of phase 2 has started while a task of phase 1 is
\* pending or running.
C7_PhaseBarrier ==
  \A r \in DOMAIN rows :
    \A t \in DOMAIN tasks :
      rows[r].st # "pending" => tasks[t].st = "done"

C7_Witness ==
  /\ pc = "phase2"
  /\ Cardinality(DOMAIN tasks) >= 2
  /\ Cardinality(Running(rows)) = 2

\* C8: the output a call leaves does not depend on what the buffer held before
\* (it is the output of the same call on a zeroed buffer), and a second call
\* with the same arguments leaves the output of the first.
C8_Overwritten ==
  pc = "done" =>
    /\ output = KernelRun([i \in DOMAIN output |-> 0], grove_size, chunk_size)
    /\ call_no >= 2 => output = last_output

C8_Witness ==
  /\ pc = "done" /\ call_no = 2 /\ row_count >= 1
  /\ output = last_output
  /\ \E i \in DOMAIN output : output[i] \notin {0, 7}
  /\ \E i \in DOMAIN output_workspace : output_workspace[i] # 0

\* C9: for each of the eight combinations of has_categorical_nodes, vector_output
\* null or not and categorical_data null or not, infer forwards exactly once,
\* to a specialization of the device type D it was called with, and passes
\* forest, postprocessor, output, input, row_count, col_count, output_count, the
\* chunk-size override, device and stream unchanged.
C9_DispatchTotal ==
  /\ dispatch.st = "called" => dispatch.forwards = <<>>
  /\ dispatch.st \in {"forwarded", "returned"} =>
       /\ Len(dispatch.forwards) = 1
       /\ LET f == dispatch.forwards[1]
          IN  /\ f.D = dispatch.D
              /\ f.forest = dispatch.forest
              /\ f.postproc = dispatch.postproc
              /\ f.output = dispatch.output
              /\ f.input = dispatch.input
              /\ f.row_count = dispatch.row_count
              /\ f.col_count = dispatch.col_count
              /\ f.output_count = dispatch.output_count
              /\ f.specified_chunk_size = dispatch.specified_chunk_size
              /\ f.device = dispatch.device
              /\ f.stream = dispatch.stream

C9_Witness ==
  /\ dispatch.st = "returned"
  /\ dispatch.has_categorical_nodes
  /\ dispatch.vector_output # nullptr
  /\ dispatch.categorical_data = nullptr
  /\ dispatch.row_count # dispatch.col_count
  /\ Len(dispatch.forwards) = 1

Malformed == num_outputs = 0 \/ chunk_size = 0 \/ grove_size = 0

\* C10: a call with a zero chunk_size, grove_size or num_outputs is rejected
\* before any row is processed (no tree is ever evaluated for a row), and a call
\* that failed has processed no row and has left the output buffer as it was.
C10_ErrorsBeforeWork ==
  /\ Malformed => evaluated = 0
  /\ pc = "failed" =>
       /\ evaluated = 0 /\ postproc_count = 0
       /\ output = IF call_no = 1 THEN PriorOutput(row_count, num_outputs)
                   ELSE last_output

\* the sum of the scalar leaves that those of trees 0 .. n - 1 whose index is
\* class_index modulo num_outputs return for row row_index
RECURSIVE SumLeavesOfClass(_, _, _)
SumLeavesOfClass(row_index, class_index, n) ==
  IF n = 0 THEN 0
  ELSE SumLeavesOfClass(row_index, class_index, n - 1) +
       (IF (n - 1) % num_outputs # class_index THEN 0
        ELSE IF input[row_index * col_count + forest[n].feature] < forest[n].threshold
        THEN forest[n].left ELSE forest[n].right)

\* C11: with scalar leaves, once the reduction of a row has stored the aggregate
\* of class c, that aggregate is the sum of the leaf values of exactly the trees
\* whose index in the forest is c modulo num_outputs, whatever the grove and
\* chunk sizes.
C11_RoundRobinClass ==
  \A r \in DOMAIN rows :
    \A c \in 0 .. num_outputs - 1 :
      (~has_vector_leaves /\ rows[r].class_index > c) =>
        output_workspace[GroveOffset(r, c, num_grove)]
          = SumLeavesOfClass(r, c, tree_count)

\* three trees, one to a grove, two classes: trees 0 and 2 make class 0 and
\* tree 1, the first of its grove, makes class 1
C11_Witness ==
  /\ ~has_vector_leaves /\ num_outputs = 2 /\ tree_count = 3 /\ grove_size = 1
  /\ \E r \in DOMAIN rows :
       /\ rows[r].class_index = 2
       /\ output_workspace[GroveOffset(r, 0, num_grove)]
            = TreeOutput(r, 0) + TreeOutput(r, 2)
       /\ output_workspace[GroveOffset(r, 1, num_grove)] = TreeOutput(r, 1)
       /\ TreeOutput(r, 1) # 0 /\ TreeOutput(r, 0) + TreeOutput(r, 2) # 0

\* the least q with q * b >= a
Ceil(a, b) == CHOOSE q \in 0 .. a : q * b >= a /\ (q = 0 \/ (q - 1) * b < a)

\* C12: the call has ceil(tree_count / grove_size) * ceil(row_count / chunk_size)
\* tasks; no evaluation is repeated, no two tasks evaluate the same (row, tree)
\* pair, every evaluation is of a row below row_count and a tree below
\* tree_count, and when the tasks are done every such pair has been evaluated.
C12_GridPartition ==
  Started =>
    /\ Cardinality(DOMAIN tasks)
         = Ceil(tree_count, grove_size) * Ceil(row_count, chunk_size)
    /\ evaluated = Cardinality(evals)
    /\ \A e1, e2 \in evals :
         (e1[2] = e2[2] /\ e1[3] = e2[3]) => e1[1] = e2[1]
    /\ \A e \in evals :
         /\ e[1] \in DOMAIN tasks
         /\ e[2] \in 0 .. row_count - 1
         /\ e[3] \in 0 .. tree_count - 1
    /\ AllTasksDone =>
         {<<e[2], e[3]>> : e \in evals}
           = (0 .. row_count - 1) \X (0 .. tree_count - 1)

\* three trees in groves of two, one row in a chunk of two: neither count is a
\* multiple of its size
C12_Witness ==
  /\ pc = "phase2"
  /\ tree_count = 3 /\ grove_size = 2 /\ row_count = 1 /\ chunk_size = 2
  /\ Cardinality(DOMAIN tasks) = 2
  /\ {e[1] : e \in evals} = {0, 1}
  /\ evaluated = 3

\* the aggregate of class class_index of row row_index: the sum over the trees
ClassSum(row_index, class_index) ==
  IF has_vector_leaves THEN SumVectors(row_index, class_index, tree_count)
  ELSE SumLeavesOfClass(row_index, class_index, tree_count)

\* C13 as stated: the num_outputs cells that start at the pointer a postprocessor
\* call was handed hold, in class order, the aggregates of the row's classes.
C13_AggregatesContiguous ==
  \A a \in postproc_calls :
    \A c \in 0 .. num_outputs - 1 :
      output_workspace[a.val + c] = ClassSum(a.row, c)

\* C13, amended: the postprocessor call of a row is handed the start of the row's
\* workspace slice and num_grove as its fourth argument, and the aggregate of
\* class c is the cell c times that fourth argument after the pointer.
C13_AggregatesStrided ==
  \A a \in postproc_calls :
    /\ a.val = a.row * num_outputs * num_grove
    /\ a.stride = num_grove
    /\ \A c \in 0 .. num_outputs - 1 :
         output_workspace[a.val + c * a.stride] = ClassSum(a.row, c)

\* two groves, two classes: the cell after the pointer is a partial cell of
\* class 0, and the aggregate of class 1 is two cells after the pointer
C13_Witness ==
  /\ num_grove = 2 /\ num_outputs = 2
  /\ \E a \in postproc_calls :
       /\ a.row = 1
       /\ output_workspace[a.val + a.stride] = ClassSum(a.row, 1)
       /\ output_workspace[a.val + 1] # ClassSum(a.row, 1)

\* the calls that differ from this one in nothing but has_categorical_nodes and
\* whether vector_output and categorical_data are null
Combinations ==
  { [dispatch EXCEPT !.has_categorical_nodes = h, !.vector_output = v,
                     !.categorical_data = c, !.st = "called", !.forwards = <<>>] :
      h \in BOOLEAN, v \in {nullptr, "vector_output"},
      c \in {nullptr, "categorical_data"} }

\* C14: the specialization infer forwards to has vector-leaf logic exactly when
\* vector_output is not null, nonlocal-category logic exactly when
\* categorical_data is not null, and categorical-node logic exactly when
\* has_categorical_nodes is set or categorical_data is not null; the eight
\* combinations of the three select six specializations.
C14_DispatchMapping ==
  dispatch.st \in {"forwarded", "returned"} =>
    /\ LET f == dispatch.forwards[1]
       IN  /\ has_vector_leaves_of(f) <=> dispatch.vector_output # nullptr
           /\ has_nonlocal_categories(f) <=> dispatch.categorical_data # nullptr
           /\ f.has_categorical_nodes <=>
                (dispatch.has_categorical_nodes \/ dispatch.categorical_data # nullptr)
           /\ f.vector_output = dispatch.vector_output
           /\ f.categorical_data = dispatch.categorical_data
    /\ Cardinality(Combinations) = 8
    /\ Cardinality({Specialization(infer(a)[1]) : a \in Combinations}) = 6

\* categorical_data is supplied with the flag unset: the categorical
\* specialization is selected all the same
C14_Witness ==
  /\ dispatch.st = "forwarded"
  /\ ~dispatch.has_categorical_nodes
  /\ dispatch.categorical_data # nullptr
  /\ dispatch.vector_output = nullptr
  /\ dispatch.forwards[1].has_categorical_nodes
  /\ has_nonlocal_categories(dispatch.forwards[1])

\* C15: with every += of phase 1 a read followed by a write and the tasks
\* interleaved in any way, no workspace cell is accessed by two tasks, the
\* workspace at the barrier is the one the tasks leave when run one after the
\* other in index order, and so is the output the call leaves.
C15_ScheduleIndependence ==
  /\ \A a1, a2 \in accessed :
       (a1.who[1] = "task" /\ a2.who[1] = "task" /\ a1.i = a2.i) => a1.who = a2.who
  /\ (pc = "phase1" /\ AllTasksDone) =>
       output_workspace =
         RunTasks(AllocWorkspace(<<>>, WorkspaceSize(num_grove)), 0, num_grove,
                  num_chunk, grove_size, chunk_size)
  /\ pc = "done" =>
       output = KernelRun(PriorOutput(row_count, num_outputs), grove_size, chunk_size)

\* two tasks of one row, of different groves, have each read a cell and not
\* yet written it back, after one of them has completed a += before
C15_Witness ==
  /\ pc = "phase1"
  /\ \E t1, t2 \in DOMAIN tasks :
       /\ t1 # t2
       /\ loaded[t1].held /\ loaded[t2].held
       /\ TaskRow(t1) = TaskRow(t2)
       /\ GroveIndex(t1, num_chunk) # GroveIndex(t2, num_chunk)
       /\ \E a \in accessed :
            a.who = <<"task", t1>> /\ a.kind = "write" /\ output_workspace[a.i] # 0

\* C16: every workspace index a call with positive chunk_size, grove_size and
\* num_outputs reads or writes, in phase 1 or in phase 2, is below the workspace
\* size row_count * num_outputs * num_grove; the forest may have no tree.
C16_InBounds ==
  \A a \in accessed :
    a.i >= 0 /\ a.i < row_count * num_outputs * num_grove

\* the output cells of row row_index
OutputCells(row_index) ==
  row_index * num_outputs .. row_index * num_outputs + num_outputs - 1

\* C17: no step of a call changes the forest or the input matrix; no step taken
\* in phase 1 changes the output buffer; and a step that changes output cells is
\* the postprocessing step of one row and changes cells of that row only.
C17_Frame ==
  [][/\ forest' = forest
     /\ input' = input
     /\ pc = "phase1" => output' = output
     /\ output' # output =>
          \E r \in DOMAIN rows :
            /\ rows[r].st # "done" /\ rows'[r].st = "done"
            /\ postproc_calls' = postproc_calls \cup {PostprocArgs(r, num_grove)}
            /\ \A i \in DOMAIN output :
                 output'[i] # output[i] => i \in OutputCells(r)]_vars

\* row 0 is postprocessed and row 1 is not: the cells of row 0 hold its results
\* and the cells of row 1 what they held before the call
C17_Witness ==
  /\ pc = "phase2" /\ row_count = 2 /\ call_no = 1
  /\ rows[0].st = "done" /\ rows[1].st = "running"
  /\ \A i \in OutputCells(0) : output[i] # 7
  /\ \A i \in OutputCells(1) : output[i] = 7

\* lines 157-172 of the rows from row_index on, one row after the other: the
\* workspace they leave
RECURSIVE ReduceRows(_, _, _)
ReduceRows(ws, row_index, ng) ==
  IF row_index < row_count
  THEN ReduceRows(ReduceRow(ws, row_index, 0, ng), row_index + 1, ng)
  ELSE ws

\* C18: with std::accumulate reading one cell a step and the row iterations
\* interleaved in any way, the iteration of row r reads and writes cells
\* r * num_outputs * num_grove .. (r + 1) * num_outputs * num_grove - 1 only; a
\* cell a class sum is stored in is read by the reduction of that row and that
\* class only; and when every row is reduced the workspace is the one the
\* rows leave when reduced in row order.
C18_Phase2RaceFree ==
  /\ \A a \in accessed :
       a.who[1] = "row" =>
         /\ a.i >= a.who[2] * num_outputs * num_grove
         /\ a.i < (a.who[2] + 1) * num_outputs * num_grove
  /\ \A w, rd \in accessed :
       (w.who[1] = "row" /\ rd.who[1] = "row" /\ w.kind = "write" /\ w.i = rd.i)
         => rd.who = w.who
  /\ (pc = "phase2" /\ \A r \in DOMAIN rows : rows[r].class_index = num_outputs) =>
       output_workspace =
         ReduceRows(RunTasks(AllocWorkspace(<<>>, WorkspaceSize(num_grove)), 0,
                             num_grove, num_chunk, grove_size, chunk_size),
                    0, num_grove)

\* two rows are in the middle of std::accumulate at once, one of them in its
\* second class after it has stored the sum of its first
C18_Witness ==
  /\ pc = "phase2" /\ num_grove >= 2 /\ num_outputs = 2
  /\ \E r1, r2 \in DOMAIN rows :
       /\ r1 # r2
       /\ acc[r1].grove = 1 /\ acc[r2].grove = 1
       /\ rows[r1].class_index = 1 /\ rows[r2].class_index = 0
       /\ output_workspace[GroveOffset(r1, 0, num_grove)] = ClassSum(r1, 0)
       /\ ClassSum(r1, 0) # 0

\* what a call that has finished has done
Finished ==
  /\ pc = "done"
  /\ AllTasksDone /\ AllRowsDone
  /\ evaluated = row_count * tree_count
  /\ postproc_count = row_count

\* a step inside a call keeps the iterations of the two loops and leaves a
\* finished iteration finished
NoRerun ==
  pc \in {"phase1", "phase2"} =>
    /\ DOMAIN tasks' = DOMAIN tasks
    /\ DOMAIN rows' = DOMAIN rows
    /\ \A t \in DOMAIN tasks : tasks[t].st = "done" => tasks'[t].st = "done"
    /\ \A r \in DOMAIN rows : rows[r].st = "done" => rows'[r].st = "done"

\* C19: under fair scheduling of the threads a call that has its workspace
\* finishes, with every task and every row iteration done, one tree evaluation
\* for each row and tree and one postprocessor call for each row; and within a
\* call a task or row iteration that is done is never run again.
C19_Completion ==
  /\ (pc = "phase1") ~> Finished
  /\ [][NoRerun]_vars

C19_Witness ==
  /\ Finished
  /\ Cardinality(DOMAIN tasks) >= 4 /\ row_count = 2 /\ tree_count = 3
  /\ call_no = 2

====
